---- MODULE Spec2Model ----
(***************************************************************************)
(* Model of the phishing URL predictor (src/app.py): URL normalisation,    *)
(* the two feature extractors with their alignment to the trained column   *)
(* lists, ensemble_predict, the external signal collectors and the         *)
(* "Check URL" handler that composes the verdict.                          *)
(*                                                                         *)
(* Strings are sequences of one-character strings.  Probabilities are      *)
(* integers in thousandths (the resolution of the ":.3f" display); the     *)
(* mean of two of them is kept in two-thousandths, so that halving is      *)
(* exact as it is for binary floating point.                               *)
(***************************************************************************)
EXTENDS Integers, Sequences, FiniteSets, TLC

\* ------------------------------------------------------------------ bounds

\* Longest generated URL of the extractor specification.
MaxUrlLen == 2

\* Longest generated column list of the extractor specification.
MaxCols == 2

\* ------------------------------------------------------------- characters

Digits == {"0", "1", "2", "3", "4", "5", "6", "7", "8", "9"}

UpperCase == <<"A", "B", "C", "D", "E", "F", "G", "H", "I", "J", "K", "L", "M",
               "N", "O", "P", "Q", "R", "S", "T", "U", "V", "W", "X", "Y", "Z">>

LowerCase == <<"a", "b", "c", "d", "e", "f", "g", "h", "i", "j", "k", "l", "m",
               "n", "o", "p", "q", "r", "s", "t", "u", "v", "w", "x", "y", "z">>

Letters == {UpperCase[i] : i \in 1..26} \cup {LowerCase[i] : i \in 1..26}

\* str.strip() with no argument removes these.
Whitespace == {" ", "\t", "\n", "\r"}

\* urlsplit removes these from the URL before splitting.
UnsafeUrlChars == {"\t", "\r", "\n"}

\* Characters a URL scheme may hold (urllib.parse.scheme_chars).
SchemeChars == Letters \cup Digits \cup {"+", "-", "."}

LowerChar(c) ==
    IF \E i \in 1..26 : UpperCase[i] = c
    THEN LowerCase[CHOOSE i \in 1..26 : UpperCase[i] = c]
    ELSE c

\* str.lower()
Lower(s) == [i \in 1..Len(s) |-> LowerChar(s[i])]

\* str.startswith(p)
StartsWith(s, p) == Len(s) >= Len(p) /\ SubSeq(s, 1, Len(p)) = p

\* sub in s
Contains(s, sub) ==
    \E i \in 0..(Len(s) - Len(sub)) : SubSeq(s, i + 1, i + Len(sub)) = sub

\* str.count(c) for a single character c
Count(s, c) == Cardinality({i \in 1..Len(s) : s[i] = c})

\* Index of the first character of s that is in cs, 0 when there is none.
FirstIn(s, cs) ==
    IF \E i \in 1..Len(s) : s[i] \in cs
    THEN CHOOSE i \in 1..Len(s) : s[i] \in cs /\ \A j \in 1..(i - 1) : s[j] \notin cs
    ELSE 0

\* Index of the last occurrence of c in s, 0 when there is none.
LastOf(s, c) ==
    IF \E i \in 1..Len(s) : s[i] = c
    THEN CHOOSE i \in 1..Len(s) : s[i] = c /\ \A j \in (i + 1)..Len(s) : s[j] # c
    ELSE 0

\* s.partition(c)[0]: the part before the first c (all of s when c is absent).
Before(s, c) ==
    LET i == FirstIn(s, {c}) IN IF i = 0 THEN s ELSE SubSeq(s, 1, i - 1)

\* s.partition(c)[2]: the part after the first c (empty when c is absent).
After(s, c) ==
    LET i == FirstIn(s, {c}) IN IF i = 0 THEN <<>> ELSE SubSeq(s, i + 1, Len(s))

\* str.strip()
strip(s) ==
    LET keep == {i \in 1..Len(s) : s[i] \notin Whitespace}
    IN  IF keep = {} THEN <<>>
        ELSE SubSeq(s, CHOOSE i \in keep : \A j \in keep : i <= j,
                       CHOOSE i \in keep : \A j \in keep : i >= j)

\* str.isdigit() on ASCII text: non-empty and all digits.
isdigit(s) == Len(s) > 0 /\ \A i \in 1..Len(s) : s[i] \in Digits

\* str.replace(c, "") for a single character c
RemoveChar(s, c) == SelectSeq(s, LAMBDA x : x # c)

\* float(n): the value n as a float, kept apart from the int n.
float(n) == [float |-> n]

\* ------------------------------------------------------------ URL parsing

HTTP == <<"h", "t", "t", "p", ":", "/", "/">>

HTTPS == <<"h", "t", "t", "p", "s", ":", "/", "/">>

\* url if url.startswith(("http://", "https://")) else "http://" + url
WithScheme(url) ==
    IF StartsWith(url, HTTP) \/ StartsWith(url, HTTPS) THEN url ELSE HTTP \o url

\* urllib.parse.urlparse on an http(s) URL: the scheme up to the first ":",
\* the netloc between "//" and the first of "/?#", then fragment and query
\* split off the rest.  raised is the ValueError("Invalid IPv6 URL") of a
\* netloc with one square bracket and not the other.
\* (Later Python releases also refuse a bracketed host that is no IP
\* literal and some non-ASCII netlocs: more inputs raise there, none fewer.)
urlparse(full) ==
    LET u      == SelectSeq(full, LAMBDA x : x \notin UnsafeUrlChars)
        colon  == FirstIn(u, {":"})
        hasSch == /\ colon > 1
                  /\ u[1] \in Letters
                  /\ \A i \in 1..(colon - 1) : u[i] \in SchemeChars
        scheme == IF hasSch THEN Lower(SubSeq(u, 1, colon - 1)) ELSE <<>>
        rest   == IF hasSch THEN SubSeq(u, colon + 1, Len(u)) ELSE u
        hasNet == StartsWith(rest, <<"/", "/">>)
        body   == IF hasNet THEN SubSeq(rest, 3, Len(rest)) ELSE rest
        delim  == FirstIn(body, {"/", "?", "#"})
        netloc == IF ~hasNet THEN <<>>
                  ELSE IF delim = 0 THEN body ELSE SubSeq(body, 1, delim - 1)
        tail   == IF ~hasNet THEN rest
                  ELSE IF delim = 0 THEN <<>> ELSE SubSeq(body, delim, Len(body))
        noFrag == Before(tail, "#")
        opens  == Count(netloc, "[") > 0
        closes == Count(netloc, "]") > 0
    IN  [raised   |-> (opens /\ ~closes) \/ (closes /\ ~opens),
         scheme   |-> scheme,
         netloc   |-> netloc,
         path     |-> Before(noFrag, "?"),
         query    |-> After(noFrag, "?"),
         fragment |-> After(tail, "#")]

\* ParseResult.hostname, with None as the empty string: the netloc after its
\* last "@", the bracketed part of a bracketed host or else the part before
\* ":", lower-cased.
HostnameOf(parsed) ==
    LET at       == LastOf(parsed.netloc, "@")
        hostinfo == SubSeq(parsed.netloc, at + 1, Len(parsed.netloc))
    IN  IF Count(hostinfo, "[") > 0
        THEN Lower(Before(After(hostinfo, "["), "]"))
        ELSE Lower(Before(hostinfo, ":"))

\* ------------------------------------------------------ feature extraction

Kw_login == <<"l", "o", "g", "i", "n">>

Kw_client == <<"c", "l", "i", "e", "n", "t">>

Kw_server == <<"s", "e", "r", "v", "e", "r">>

Kw_admin == <<"a", "d", "m", "i", "n">>

Shorteners ==
    { <<"b", "i", "t", ".", "l", "y">>,
      <<"t", ".", "c", "o">>,
      <<"t", "i", "n", "y", "u", "r", "l">>,
      <<"g", "o", "o", ".", "g", "l">>,
      <<"o", "w", ".", "l", "y">> }

Bit(b) == IF b THEN 1 ELSE 0

\* The features dictionary of extract_content_features.
ContentFeatures(url) ==
    LET host == HostnameOf(urlparse(WithScheme(url)))
    IN  [url_len        |-> Len(url),
         url_has_login  |-> Bit(Contains(Lower(url), Kw_login)),
         url_has_client |-> Bit(Contains(Lower(url), Kw_client)),
         url_has_server |-> Bit(Contains(Lower(url), Kw_server)),
         url_has_admin  |-> Bit(Contains(Lower(url), Kw_admin)),
         url_has_ip     |-> Bit(isdigit(RemoveChar(host, "."))),
         url_isshorted  |-> Bit(\E s \in Shorteners : Contains(Lower(host), s)),
         url_entropy    |-> 0]

\* The features dictionary of extract_structural_features.
StructFeatures(url) ==
    LET host == HostnameOf(urlparse(WithScheme(url)))
    IN  [length_url      |-> Len(url),
         length_hostname |-> Len(host),
         ip              |-> Bit(isdigit(RemoveChar(host, "."))),
         nb_dots         |-> Count(url, "."),
         nb_hyphens      |-> Count(url, "-"),
         nb_at           |-> Count(url, "@"),
         nb_qm           |-> Count(url, "?"),
         nb_and          |-> Count(url, "&"),
         nb_or           |-> Count(url, "|"),
         nb_eq           |-> Count(url, "="),
         nb_underscore   |-> Count(url, "_"),
         nb_percent      |-> Count(url, "%"),
         nb_slash        |-> Count(url, "/")]

\* The alignment loop without the default: a column the dictionary lacks is
\* skipped instead of filled.
AlignSkipMissing(features, cols) ==
    LET kept == SelectSeq(cols, LAMBDA c : c \in DOMAIN features)
    IN  [i \in 1..Len(kept) |-> float(features[kept[i]])]

\* for col in cols: row.append(float(features.get(col, 0)))
Align(features, cols) ==
    [i \in 1..Len(cols) |->
        float(IF cols[i] \in DOMAIN features THEN features[cols[i]] ELSE 0)]

\* The value an extractor hands back: the aligned row, or the ValueError that
\* urlparse raised.
Raised == [raised |-> TRUE]

extract_content_features(url, cols) ==
    IF urlparse(WithScheme(url)).raised THEN Raised
    ELSE [raised |-> FALSE, row |-> Align(ContentFeatures(url), cols)]

extract_structural_features(url, cols) ==
    IF urlparse(WithScheme(url)).raised THEN Raised
    ELSE [raised |-> FALSE, row |-> Align(StructFeatures(url), cols)]

\* ---------------------------------------------------------------- scoring

\* Probabilities are counted in thousandths: 1000 is the probability 1.0.
Thousandths == 1000

\* What predict_proba(...)[0][1] may give.
ProbValues == {0, 10, 500, 501, Thousandths}

\* What predict(...)[0] gives for a classifier without predict_proba: a class.
ClassValues == {0, Thousandths}

\* The comparison of ensemble_predict with >= for >: a mean of exactly 0.5
\* would be Phishing.
LabelOfAtLeast(avg2) == IF avg2 >= Thousandths THEN "Phishing" ELSE "Legitimate"

\* "Phishing" if avg_prob > 0.5 else "Legitimate", the mean in two-thousandths.
LabelOf(avg2) == IF avg2 > Thousandths THEN "Phishing" ELSE "Legitimate"

\* ensemble_predict(url) with the two classifiers' outputs prob_content and
\* prob_struct: (label, avg_prob, prob_content, prob_struct), avg_prob in
\* two-thousandths, or the exception an extractor raised.
ensemble_predict(url, ccols, scols, prob_content, prob_struct) ==
    LET cv == extract_content_features(url, ccols)
        sv == extract_structural_features(url, scols)
    IN  IF cv.raised \/ sv.raised THEN Raised
        ELSE [raised      |-> FALSE,
              content_vec |-> cv.row,
              struct_vec  |-> sv.row,
              label       |-> LabelOf(prob_content + prob_struct),
              avg_prob    |-> prob_content + prob_struct,
              p_content   |-> prob_content,
              p_struct    |-> prob_struct]

\* f"{x:.3f}" of a value in two-thousandths, as the thousandths shown: exact
\* for a whole number of thousandths, and one of the two neighbours for a
\* value half-way (the binary value of the float decides which).
Fmt3(avg2) ==
    IF avg2 % 2 = 0 THEN {avg2 \div 2} ELSE {avg2 \div 2, avg2 \div 2 + 1}

\* ------------------------------------------------------------- collectors

None == "None"

\* What socket.gethostbyname may do.
ResolveResponses == {"address", "gaierror", "error"}

\* What the TLS handshake to port 443 may do.
TlsResponses == {"certificate", "error"}

\* What whois_lib.whois(domain) may give: no creation date, a date (so many
\* days ago; a date in the future is negative), a list of dates, or an error.
WhoisResponses ==
    { [kind |-> "none"], [kind |-> "date", days |-> 400],
      [kind |-> "date", days |-> -3], [kind |-> "list", days |-> 400],
      [kind |-> "error"] }

\* What the ip-api request may give.
GeoResponses ==
    { [kind |-> "http", status |-> 200, country |-> "Iceland"],
      [kind |-> "http", status |-> 200, country |-> None],
      [kind |-> "http", status |-> 429, country |-> None],
      [kind |-> "error"] }

\* What the URLhaus request may give: body says whether the text holds
\* "query_status" and whether it holds "no results".
RepResponses ==
    { [kind |-> "http", status |-> 200, body |-> "no_results"],
      [kind |-> "http", status |-> 200, body |-> "listed"],
      [kind |-> "http", status |-> 200, body |-> "other"],
      [kind |-> "http", status |-> 503, body |-> "other"],
      [kind |-> "error"] }

\* The address the resolver gives for a name it resolves; the empty name
\* resolves to the wildcard address.
AddressOf(domain) == IF domain = <<>> THEN "0.0.0.0" ELSE "203.0.113.7"

\* A collector's return: its value, the external calls it made, and whether
\* an exception left it.
Ret(value, called) == [value |-> value, called |-> called, raised |-> FALSE]

\* domain_exists without its except clauses: a resolver failure leaves it.
domain_exists_unguarded(domain, resp) ==
    IF domain = <<>> THEN Ret(0, 0)
    ELSE IF resp = "address" THEN Ret(1, 1)
    ELSE [value |-> None, called |-> 1, raised |-> TRUE]

domain_exists(domain, resp) ==
    IF domain = <<>> THEN Ret(0, 0)
    ELSE IF resp = "address" THEN Ret(1, 1)
    ELSE IF resp = "gaierror" THEN Ret(0, 1)
    ELSE Ret(0, 1)

\* dns_a_record with one more attempt after a failure.
dns_a_record_retry(domain, resp) ==
    IF resp = "address" THEN Ret(AddressOf(domain), 1) ELSE Ret(None, 2)

dns_a_record(domain, resp) ==
    IF resp = "address" THEN Ret(AddressOf(domain), 1) ELSE Ret(None, 1)

ssl_check(host, resp) ==
    IF host = <<>> THEN Ret("No hostname", 0)
    ELSE IF resp = "certificate" THEN Ret("Valid SSL", 1)
    ELSE Ret("No/Invalid SSL", 1)

\* An age in days is <<n>>, and no age (None) is <<>>.
NoAge == <<>>

Days(n) == <<n>>

whois_age_days(domain, available, resp) ==
    IF ~available \/ domain = <<>> THEN Ret(NoAge, 0)
    ELSE IF resp.kind = "error" THEN Ret(NoAge, 1)
    ELSE IF resp.kind = "none" THEN Ret(NoAge, 1)
    ELSE Ret(Days(IF resp.days > 0 THEN resp.days ELSE 0), 1)

geo_country(ip, resp) ==
    IF ip = None THEN Ret("Unknown", 0)
    ELSE IF resp.kind = "error" THEN Ret("Unknown", 1)
    ELSE IF resp.status = 200
         THEN Ret(IF resp.country # None THEN resp.country ELSE "Unknown", 1)
    ELSE Ret("Unknown", 1)

reputation_check_urlhaus(host, resp) ==
    IF host = <<>> THEN Ret("Unknown", 0)
    ELSE IF resp.kind = "error" THEN Ret("Unknown", 1)
    ELSE IF resp.status = 200 /\ resp.body \in {"no_results", "listed"}
         THEN Ret(IF resp.body = "no_results" THEN "Clean" ELSE "Blacklisted", 1)
    ELSE Ret("Unknown", 1)

\* ------------------------------------------------------------------ state

VARIABLES
    url_input,        \* the text of the URL box
    pc,               \* where the script is: idle, warned, error, done, or
                      \* the call the "Check URL" handler makes next
    X_content_cols,   \* the content model's column list, loaded at startup
    X_struct_cols,    \* the structural model's column list, loaded at startup
    WHOIS_AVAILABLE,  \* whether the whois library could be imported
    hostname,         \* the handler's locals ...
    content_vec, struct_vec,
    ens_ret,          \* what ensemble_predict returned
    label, avg_prob, p_content, p_struct,
    domain_ok, dns_ip, ssl_status, age_days, country, rep,
    final_label,
    shown,            \* what the handler put on the page
    world,            \* how each external service answers this request
    calls             \* calls made during this request, per service

procVars == <<X_content_cols, X_struct_cols, WHOIS_AVAILABLE>>

ensVars == <<content_vec, struct_vec, ens_ret, label, avg_prob, p_content, p_struct>>

sigVars == <<domain_ok, dns_ip, ssl_status, age_days, country, rep>>

outVars == <<final_label, shown>>

vars == <<url_input, pc, procVars, hostname, ensVars, sigVars, outVars, world, calls>>

Services == {"resolver", "tls", "whois", "geoapi", "urlhaus"}

Steps == {"extract", "model"}

NoCalls == [s \in Services \cup Steps |-> 0]

NoWorld ==
    [content_model |-> None, struct_model |-> None,
     resolve1 |-> None, resolve2 |-> None, tls |-> None, whois |-> None,
     geo |-> None, rep |-> None]

\* The state of a fresh run of the script, before the button is pressed.
Fresh ==
    /\ hostname = None
    /\ content_vec = None /\ struct_vec = None /\ ens_ret = None
    /\ label = None /\ avg_prob = None /\ p_content = None /\ p_struct = None
    /\ domain_ok = None /\ dns_ip = None /\ ssl_status = None
    /\ age_days = None /\ country = None /\ rep = None
    /\ final_label = None /\ shown = None
    /\ world = NoWorld
    /\ calls = NoCalls

\* A run of the script from the top leaves every local as Fresh describes.
Restart ==
    /\ hostname' = None
    /\ content_vec' = None /\ struct_vec' = None /\ ens_ret' = None
    /\ label' = None /\ avg_prob' = None /\ p_content' = None /\ p_struct' = None
    /\ domain_ok' = None /\ dns_ip' = None /\ ssl_status' = None
    /\ age_days' = None /\ country' = None /\ rep' = None
    /\ final_label' = None /\ shown' = None
    /\ world' = NoWorld
    /\ calls' = NoCalls

\* --------------------------------------------------------------- inputs

Str_a_io == <<"a", ".", "i", "o">>

Str_ip_admin == <<"1", ".", "1", "/", "A", "d", "m", "i", "n">>

Str_https_t_co == HTTPS \o <<"t", ".", "c", "o", "/", "x", "?", "q", "=", "1">>

\* URLs typed into the box: blank ones, one with no host, one the parser
\* refuses, and ordinary ones.
SampleUrls ==
    { <<>>, <<" ">>, <<" ", "\t">>, <<"/">>, <<"[">>,
      Str_a_io, Str_ip_admin, Str_https_t_co }

\* Column lists as training may have saved them: the extractor's own keys,
\* and one column the extractor does not compute.
SampleContentCols ==
    <<"url_len", "url_has_login", "url_has_client", "url_has_server",
      "url_has_admin", "url_has_ip", "url_isshorted", "url_entropy">>

SampleStructCols ==
    <<"length_url", "length_hostname", "ip", "nb_dots", "nb_hyphens", "nb_at",
      "nb_qm", "nb_and", "nb_or", "nb_eq", "nb_underscore", "nb_percent",
      "nb_slash", "nb_www">>

\* The characters of the generated URLs.
UrlAlphabet == {"a", "1", ".", "/", "["}

\* The column names of the generated column lists: a key of the content
\* dictionary, a key of the structural dictionary, a key of neither.
ColumnPool == {"url_len", "nb_dots", "nb_www"}

SeqsUpTo(S, n) == UNION {[1..k -> S] : k \in 0..n}

GenUrls == SeqsUpTo(UrlAlphabet, MaxUrlLen) \cup SampleUrls

GenCols == SeqsUpTo(ColumnPool, MaxCols)

\* ------------------------------------------------------------------ Init

Init ==
    /\ url_input = <<>>
    /\ pc = "idle"
    /\ X_content_cols = SampleContentCols
    /\ X_struct_cols = SampleStructCols
    /\ WHOIS_AVAILABLE \in BOOLEAN
    /\ Fresh

\* ------------------------------------------------------- the script's runs

Resting == {"idle", "warned", "error", "done"}

\* The user edits the URL box: the script runs again from the top, the
\* button not pressed.
EnterURL ==
    /\ pc \in Resting
    /\ \E u \in SampleUrls : url_input' = u
    /\ pc' = "idle"
    /\ Restart
    /\ UNCHANGED procVars

\* The test that rejects a submission, with the whitespace-only case left out.
IsBlankEmptyOnly(url) == url = <<>>

\* not url_input or not url_input.strip()
IsBlank(url) == url = <<>> \/ strip(url) = <<>>

\* parsed.path.split("/")[0]
FirstSegment(path) == Before(path, "/")

\* parsed.hostname or parsed.path.split("/")[0]
HandlerHostname(parsed) ==
    LET host == HostnameOf(parsed)
    IN  IF host # <<>> THEN host ELSE FirstSegment(parsed.path)

\* The handler's calls with the collectors first and the scoring last.
HandlerCallsCollectorsFirst ==
    <<"domain_exists", "dns_a_record", "ssl_check", "whois_age_days",
      "geo_country", "reputation_check_urlhaus", "ensemble_predict", "verdict">>

\* The calls of the handler's try block after the URL is parsed, in program
\* order; the verdict and its display end it.
HandlerCalls ==
    <<"ensemble_predict", "domain_exists", "dns_a_record", "ssl_check",
      "whois_age_days", "geo_country", "reputation_check_urlhaus", "verdict">>

\* The call that follows call c.
CallAfter(c) ==
    HandlerCalls[1 + CHOOSE i \in 1..Len(HandlerCalls) : HandlerCalls[i] = c]

\* The button is pressed: a blank URL gets the warning; any other is parsed
\* and its host name taken, and a ValueError of the parser goes to the
\* handler's except clause.
ClickCheck ==
    /\ pc = "idle"
    /\ IF IsBlank(url_input)
       THEN pc' = "warned" /\ UNCHANGED hostname
       ELSE LET parsed == urlparse(WithScheme(url_input))
            IN  IF parsed.raised
                THEN pc' = "error" /\ UNCHANGED hostname
                ELSE pc' = HandlerCalls[1] /\ hostname' = HandlerHostname(parsed)
    /\ UNCHANGED <<url_input, procVars, ensVars, sigVars, outVars, world, calls>>

Bump(c, svc, n) == [c EXCEPT ![svc] = @ + n]

\* label, avg_prob, p_content, p_struct = ensemble_predict(url_input)
Score ==
    /\ pc = "ensemble_predict"
    /\ \E has_c, has_s \in BOOLEAN :
       \E prob_c \in (IF has_c THEN ProbValues ELSE ClassValues) :
       \E prob_s \in (IF has_s THEN ProbValues ELSE ClassValues) :
          /\ ens_ret' = ensemble_predict(url_input, X_content_cols, X_struct_cols,
                                         prob_c, prob_s)
          /\ world' = [world EXCEPT !.content_model = prob_c,
                                    !.struct_model = prob_s]
    /\ IF ens_ret'.raised
       THEN /\ pc' = "error"
            /\ calls' = Bump(calls, "extract", 1)
            /\ UNCHANGED <<content_vec, struct_vec, label, avg_prob, p_content, p_struct>>
       ELSE /\ pc' = CallAfter(pc)
            /\ calls' = Bump(Bump(calls, "extract", 2), "model", 2)
            /\ content_vec' = ens_ret'.content_vec
            /\ struct_vec' = ens_ret'.struct_vec
            /\ label' = ens_ret'.label
            /\ avg_prob' = ens_ret'.avg_prob
            /\ p_content' = ens_ret'.p_content
            /\ p_struct' = ens_ret'.p_struct
    /\ UNCHANGED <<url_input, procVars, hostname, sigVars, outVars>>

\* The service's answer to collector return r: none if it was not called.
Asked(r, resp) == IF r.called > 0 THEN resp ELSE None

\* One collector call of the handler: the collector returns r, and the
\* handler goes on to its next call, or to its except clause when the
\* collector raised.
After_call(r, svc) ==
    /\ calls' = Bump(calls, svc, r.called)
    /\ pc' = IF r.raised THEN "error" ELSE CallAfter(pc)

\* domain_ok = domain_exists(hostname)
DomainExists ==
    /\ pc = "domain_exists"
    /\ \E resp \in ResolveResponses :
          LET r == domain_exists(hostname, resp)
          IN  /\ After_call(r, "resolver")
              /\ domain_ok' = r.value
              /\ world' = [world EXCEPT !.resolve1 = Asked(r, resp)]
    /\ UNCHANGED <<url_input, procVars, hostname, ensVars, outVars,
                   dns_ip, ssl_status, age_days, country, rep>>

\* dns_ip = dns_a_record(hostname)
DnsARecord ==
    /\ pc = "dns_a_record"
    /\ \E resp \in ResolveResponses :
          LET r == dns_a_record(hostname, resp)
          IN  /\ After_call(r, "resolver")
              /\ dns_ip' = r.value
              /\ world' = [world EXCEPT !.resolve2 = Asked(r, resp)]
    /\ UNCHANGED <<url_input, procVars, hostname, ensVars, outVars,
                   domain_ok, ssl_status, age_days, country, rep>>

\* ssl_status = ssl_check(hostname)
SslCheck ==
    /\ pc = "ssl_check"
    /\ \E resp \in TlsResponses :
          LET r == ssl_check(hostname, resp)
          IN  /\ After_call(r, "tls")
              /\ ssl_status' = r.value
              /\ world' = [world EXCEPT !.tls = Asked(r, resp)]
    /\ UNCHANGED <<url_input, procVars, hostname, ensVars, outVars,
                   domain_ok, dns_ip, age_days, country, rep>>

\* age_days = whois_age_days(hostname)
WhoisAge ==
    /\ pc = "whois_age_days"
    /\ \E resp \in WhoisResponses :
          LET r == whois_age_days(hostname, WHOIS_AVAILABLE, resp)
          IN  /\ After_call(r, "whois")
              /\ age_days' = r.value
              /\ world' = [world EXCEPT !.whois = Asked(r, resp)]
    /\ UNCHANGED <<url_input, procVars, hostname, ensVars, outVars,
                   domain_ok, dns_ip, ssl_status, country, rep>>

\* country = geo_country(dns_ip) if dns_ip else "Unknown"
\* (world.geo is the geolocation service's answer, asked for or not.)
GeoCountry ==
    /\ pc = "geo_country"
    /\ \E resp \in GeoResponses :
          LET r == IF dns_ip # None THEN geo_country(dns_ip, resp)
                   ELSE Ret("Unknown", 0)
          IN  /\ After_call(r, "geoapi")
              /\ country' = r.value
              /\ world' = [world EXCEPT !.geo = resp]
    /\ UNCHANGED <<url_input, procVars, hostname, ensVars, outVars,
                   domain_ok, dns_ip, ssl_status, age_days, rep>>

\* rep = reputation_check_urlhaus(hostname)
Reputation ==
    /\ pc = "reputation_check_urlhaus"
    /\ \E resp \in RepResponses :
          LET r == reputation_check_urlhaus(hostname, resp)
          IN  /\ After_call(r, "urlhaus")
              /\ rep' = r.value
              /\ world' = [world EXCEPT !.rep = Asked(r, resp)]
    /\ UNCHANGED <<url_input, procVars, hostname, ensVars, outVars,
                   domain_ok, dns_ip, ssl_status, age_days, country>>

\* The override with the test of the flag reversed.
FinalLabelReversed(ok, lbl) ==
    IF ok # 0 THEN "Phishing (domain does not resolve)" ELSE lbl

\* if domain_ok == 0: final_label = "Phishing (domain does not resolve)"
\* else: final_label = label
FinalLabel(ok, lbl) ==
    IF ok = 0 THEN "Phishing (domain does not resolve)" ELSE lbl

\* "phish" in final_label.lower()
IsPhishLabel(l) == l \in {"Phishing", "Phishing (domain does not resolve)"}

\* The scores put on the page, with the overridden verdict shown as certain.
ShownScoresForced(ok, avg, pcv, psv) ==
    IF ok = 0
    THEN {[score |-> Thousandths, content |-> pcv, structural |-> psv]}
    ELSE {[score |-> s, content |-> pcv, structural |-> psv] : s \in Fmt3(avg)}

\* The scores of the result line (the same whatever the flag ok), each
\* through ":.3f":
\* score: {avg_prob:.3f} (content: {p_content:.3f}, structural: {p_struct:.3f})
ShownScores(ok, avg, pcv, psv) ==
    {[score |-> s, content |-> pcv, structural |-> psv] : s \in Fmt3(avg)}

\* The verdict and the result line: st.error for a phishing label,
\* st.success otherwise.
Compose ==
    /\ pc = "verdict"
    /\ final_label' = FinalLabel(domain_ok, label)
    /\ \E sc \in ShownScores(domain_ok, avg_prob, p_content, p_struct) :
          shown' = [box   |-> IF IsPhishLabel(final_label') THEN "error" ELSE "success",
                    label |-> final_label',
                    score |-> sc.score, content |-> sc.content,
                    structural |-> sc.structural]
    /\ pc' = "done"
    /\ UNCHANGED <<url_input, procVars, hostname, ensVars, sigVars, world, calls>>

Next ==
    \/ EnterURL
    \/ ClickCheck
    \/ Score
    \/ DomainExists
    \/ DnsARecord
    \/ SslCheck
    \/ WhoisAge
    \/ GeoCountry
    \/ Reputation
    \/ Compose

Spec == Init /\ [][Next]_vars

\* ------------------------------------------- the extractors on their own

\* The extractors applied to generated URLs under generated column lists,
\* as the "Show extracted feature vectors" block calls them: the content
\* vector, then the structural one, an exception ending the block.
InitExtract ==
    /\ url_input \in GenUrls
    /\ pc = "show_content"
    /\ X_content_cols \in GenCols
    /\ X_struct_cols \in GenCols
    /\ WHOIS_AVAILABLE = TRUE
    /\ Fresh

\* dict(zip(X_content_cols, extract_content_features(url_input)))
ShowContentVector ==
    /\ pc = "show_content"
    /\ LET r == extract_content_features(url_input, X_content_cols)
       IN  IF r.raised
           THEN pc' = "error" /\ UNCHANGED content_vec
           ELSE pc' = "show_struct" /\ content_vec' = r.row
    /\ calls' = Bump(calls, "extract", 1)
    /\ UNCHANGED <<url_input, procVars, hostname, struct_vec, ens_ret, label,
                   avg_prob, p_content, p_struct, sigVars, outVars, world>>

\* dict(zip(X_struct_cols, extract_structural_features(url_input)))
ShowStructVector ==
    /\ pc = "show_struct"
    /\ LET r == extract_structural_features(url_input, X_struct_cols)
       IN  IF r.raised
           THEN pc' = "error" /\ UNCHANGED struct_vec
           ELSE pc' = "shown" /\ struct_vec' = r.row
    /\ calls' = Bump(calls, "extract", 1)
    /\ UNCHANGED <<url_input, procVars, hostname, content_vec, ens_ret, label,
                   avg_prob, p_content, p_struct, sigVars, outVars, world>>

NextExtract ==
    \/ ShowContentVector
    \/ ShowStructVector

SpecExtract == InitExtract /\ [][NextExtract]_vars

\* ------------------------------------------------------------ properties

\* The handler has its verdict on the page.
AtVerdict == pc = "done"

\* ensemble_predict has returned to the handler.
Scored == pc \in {"domain_exists", "dns_a_record", "ssl_check", "whois_age_days",
                  "geo_country", "reputation_check_urlhaus", "verdict", "done"}

\* The URL box holds nothing but whitespace (or nothing).
AllWhitespace == \A i \in 1..Len(url_input) : url_input[i] \in Whitespace

\* C1: at the verdict, a domain flag of 0 gives a phishing label and the
\* error box whatever the two model probabilities are, and a flag of 1
\* gives the label ensemble_predict returned.
C1_OverrideDecidesLabel ==
    AtVerdict =>
        /\ shown.label = final_label
        /\ domain_ok = 0 =>
              /\ final_label = "Phishing (domain does not resolve)"
              /\ shown.box = "error"
        /\ domain_ok # 0 => final_label = ens_ret.label

\* A verdict for a domain that does not resolve, both models at 0.01.
C1_Witness ==
    /\ AtVerdict
    /\ domain_ok = 0
    /\ ens_ret.p_content = 10 /\ ens_ret.p_struct = 10
    /\ ens_ret.label = "Legitimate"
    /\ shown.box = "error"

\* C2: what ensemble_predict returns is the two classifiers' outputs, their
\* arithmetic mean (twice the mean is their sum), and the label Phishing
\* exactly when the mean is above 0.5; a mean of exactly 0.5 is Legitimate.
C2_MeanAndStrictThreshold ==
    Scored =>
        /\ ens_ret.p_content = world.content_model
        /\ ens_ret.p_struct = world.struct_model
        /\ ens_ret.avg_prob = world.content_model + world.struct_model
        /\ (ens_ret.label = "Phishing") <=>
              (world.content_model + world.struct_model > Thousandths)
        /\ ens_ret.label \in {"Phishing", "Legitimate"}

\* A mean of exactly 0.5 from two different outputs, labelled Legitimate.
C2_Witness ==
    /\ Scored
    /\ world.content_model = 0 /\ world.struct_model = Thousandths
    /\ ens_ret.label = "Legitimate"

\* The keys of the two feature dictionaries.
ContentKeys ==
    {"url_len", "url_has_login", "url_has_client", "url_has_server",
     "url_has_admin", "url_has_ip", "url_isshorted", "url_entropy"}

StructKeys ==
    {"length_url", "length_hostname", "ip", "nb_dots", "nb_hyphens", "nb_at",
     "nb_qm", "nb_and", "nb_or", "nb_eq", "nb_underscore", "nb_percent",
     "nb_slash"}

\* vec has one entry per column of cols, in their order: the float of the
\* feature for a column that is a key, float 0 for any other.
AlignedTo(vec, cols, keys, features) ==
    /\ Len(vec) = Len(cols)
    /\ \A i \in 1..Len(cols) :
          /\ cols[i] \notin keys => vec[i] = float(0)
          /\ cols[i] \in keys => vec[i] = float(features[cols[i]])

\* C3: the vector each extractor returns has exactly one entry per schema
\* column, in schema order, 0.0 where the feature map lacks the column, and
\* nothing for map keys outside the schema.
C3_VectorsAligned ==
    /\ pc \in {"show_struct", "shown"} =>
          AlignedTo(content_vec, X_content_cols, ContentKeys,
                    ContentFeatures(url_input))
    /\ pc = "shown" =>
          AlignedTo(struct_vec, X_struct_cols, StructKeys,
                    StructFeatures(url_input))

\* Both vectors returned for the columns <<url_len, nb_dots>>: each
\* extractor has one of the two and lacks the other.
C3_Witness ==
    /\ pc = "shown"
    /\ url_input = <<"a", ".">>
    /\ X_content_cols = <<"url_len", "nb_dots">>
    /\ X_struct_cols = <<"url_len", "nb_dots">>
    /\ content_vec = <<float(2), float(0)>>
    /\ struct_vec = <<float(0), float(1)>>

\* What each signal is when it depends on its own service's answer alone.
OwnDomainOk == IF hostname # <<>> /\ world.resolve1 = "address" THEN 1 ELSE 0

OwnDnsIp == IF world.resolve2 = "address" THEN AddressOf(hostname) ELSE None

OwnSsl ==
    IF hostname = <<>> THEN "No hostname"
    ELSE IF world.tls = "certificate" THEN "Valid SSL" ELSE "No/Invalid SSL"

OwnAge ==
    IF WHOIS_AVAILABLE /\ hostname # <<>> /\ world.whois.kind \in {"date", "list"}
    THEN IF world.whois.days < 0 THEN Days(0) ELSE Days(world.whois.days)
    ELSE NoAge

OwnCountry ==
    IF world.geo.kind = "http" /\ world.geo.status = 200 /\ world.geo.country # None
    THEN world.geo.country ELSE "Unknown"

OwnRep ==
    IF hostname # <<>> /\ world.rep.kind = "http" /\ world.rep.status = 200
       /\ world.rep.body # "other"
    THEN IF world.rep.body = "no_results" THEN "Clean" ELSE "Blacklisted"
    ELSE "Unknown"

\* No collector's failure reaches the handler's except clause: the handler
\* is there only before any external call.
NoCollectorRaises == pc = "error" => \A s \in Services : calls[s] = 0

\* The score at the verdict is the one ensemble_predict returned.
ScoreUntouched ==
    /\ label = ens_ret.label /\ avg_prob = ens_ret.avg_prob
    /\ p_content = ens_ret.p_content /\ p_struct = ens_ret.p_struct
    /\ ens_ret.avg_prob = world.content_model + world.struct_model

\* C4 as claimed: no collector failure leaves the pipeline, and every
\* signal, the country included, is what its own service's answer makes it,
\* whatever the other collectors did.
C4_EverySignalIndependent ==
    /\ NoCollectorRaises
    /\ AtVerdict =>
          /\ domain_ok = OwnDomainOk /\ dns_ip = OwnDnsIp /\ ssl_status = OwnSsl
          /\ age_days = OwnAge /\ rep = OwnRep
          /\ country = OwnCountry
          /\ ScoreUntouched

\* C4 amended: as above, except that the country is "Unknown" when
\* dns_a_record gave no address, the geolocation service then not asked.
C4_SignalsIndependentButCountry ==
    /\ NoCollectorRaises
    /\ AtVerdict =>
          /\ domain_ok = OwnDomainOk /\ dns_ip = OwnDnsIp /\ ssl_status = OwnSsl
          /\ age_days = OwnAge /\ rep = OwnRep
          /\ country = (IF dns_ip = None THEN "Unknown" ELSE OwnCountry)
          /\ (dns_ip = None <=> calls["geoapi"] = 0)
          /\ ScoreUntouched

\* A verdict after the resolver, the TLS handshake, the WHOIS lookup and
\* the reputation request all failed while geolocation answered.
C4_Witness ==
    /\ AtVerdict
    /\ hostname # <<>> /\ WHOIS_AVAILABLE
    /\ world.resolve1 = "error" /\ world.tls = "error"
    /\ world.whois.kind = "error" /\ world.rep.kind = "error"
    /\ domain_ok = 0 /\ ssl_status = "No/Invalid SSL"
    /\ age_days = NoAge /\ rep = "Unknown"
    /\ dns_ip # None /\ country = "Iceland"

\* C5: a submission of an empty or whitespace-only URL ends in the warning
\* with nothing extracted, nothing scored and no external call made.
C5_BlankRejected ==
    (AllWhitespace /\ pc # "idle") => (pc = "warned" /\ calls = NoCalls)

\* The warning for a URL of two whitespace characters.
C5_Witness ==
    /\ pc = "warned"
    /\ Len(url_input) = 2
    /\ calls = NoCalls

\* The thousandths shown for a mean in two-thousandths: the mean itself, or
\* for a mean half-way between two of them one of the two.
Rounded3(shownScore, mean2) ==
    \/ mean2 % 2 = 0 /\ 2 * shownScore = mean2
    \/ mean2 % 2 = 1 /\ (2 * shownScore = mean2 - 1 \/ 2 * shownScore = mean2 + 1)

\* C6: when the override decides the label, the mean and the two model
\* probabilities that go on the page are those ensemble_predict returned,
\* shown to three decimals: the override changes the label alone.
C6_OverrideKeepsScores ==
    (AtVerdict /\ domain_ok = 0) =>
        /\ avg_prob = ens_ret.avg_prob
        /\ p_content = ens_ret.p_content
        /\ p_struct = ens_ret.p_struct
        /\ shown.content = ens_ret.p_content
        /\ shown.structural = ens_ret.p_struct
        /\ Rounded3(shown.score, ens_ret.avg_prob)

\* An overridden verdict over a Legitimate ensemble label, the mean 0.255
\* and the outputs 0.01 and 0.5 on the page.
C6_Witness ==
    /\ AtVerdict /\ domain_ok = 0
    /\ ens_ret.label = "Legitimate"
    /\ final_label = "Phishing (domain does not resolve)"
    /\ shown.content = 10 /\ shown.structural = 500 /\ shown.score = 255

\* C7: normalisation never fails, so the handler never reaches its except
\* clause from the parsing of the URL, before it has a host name.
C7_NormalizationNeverFails == ~(pc = "error" /\ hostname = None)

\* Collection can go on while the scoring has not returned.
CollectionNotBlockedByScoring ==
    pc = "ensemble_predict" => ENABLED DomainExists

\* Scoring never waits on a collector: no external call precedes its return.
ScoringWaitsOnNothing ==
    pc = "ensemble_predict" => \A s \in Services : calls[s] = 0

\* The verdict joins the scoring result and every collector's result.
VerdictJoinsAll ==
    AtVerdict =>
        /\ calls["model"] = 2
        /\ ssl_status # None /\ country # None /\ rep # None

\* C8 as claimed: scoring and collection run concurrently, the scoring
\* waits on no collector, and the verdict joins both.
C8_ScoringAndCollectionConcurrent ==
    /\ CollectionNotBlockedByScoring
    /\ ScoringWaitsOnNothing
    /\ VerdictJoinsAll

\* C8 amended: the two run one after the other, scoring first: no collector
\* can start before ensemble_predict has returned, so the scoring waits on
\* no collector, and the verdict joins both.
C8_ScoringThenCollection ==
    /\ pc = "ensemble_predict" => ~ENABLED DomainExists
    /\ (\E s \in Services : calls[s] > 0) => (Scored /\ calls["model"] = 2)
    /\ pc \in {"dns_a_record", "ssl_check", "whois_age_days", "geo_country",
               "reputation_check_urlhaus", "verdict"} => calls["model"] = 2
    /\ ScoringWaitsOnNothing
    /\ VerdictJoinsAll

\* A collector at work, the score already there.
C8_Witness ==
    /\ pc = "ssl_check"
    /\ calls["resolver"] = 2
    /\ calls["model"] = 2
    /\ ens_ret.avg_prob = 20

\* C9 as claimed: no external service is called more than once in a request.
C9_EachServiceAtMostOnce == \A s \in Services : calls[s] <= 1

\* C9 amended: each collector calls its service at most once and a failed
\* call is not repeated; the resolver serves two collectors, domain_exists
\* and dns_a_record, and is called at most twice, every other service at
\* most once.
C9_OneAttemptPerCollector ==
    /\ \A s \in Services \ {"resolver"} : calls[s] <= 1
    /\ calls["resolver"] <= 2
    /\ pc \in {"ensemble_predict", "domain_exists"} => calls["resolver"] = 0
    /\ pc = "dns_a_record" => calls["resolver"] <= 1

\* A verdict after both resolver calls failed, each made once.
C9_Witness ==
    /\ AtVerdict
    /\ world.resolve1 = "gaierror" /\ world.resolve2 = "gaierror"
    /\ calls["resolver"] = 2
    /\ domain_ok = 0 /\ dns_ip = None

\* C10: at the verdict an address is reported only with the domain-exists
\* flag set, so the country is asked for and the label left alone only for
\* a domain reported as existing.
C10_FlagAndAddressAgree ==
    AtVerdict =>
        /\ dns_ip # None => domain_ok = 1
        /\ calls["geoapi"] > 0 => domain_ok = 1

====
